---- MODULE Spec2Model ----
(***************************************************************************)
(* Kafka Hook dispatch core (bulkwebhook/bulk_webhook/doctype/kafka_hook/  *)
(* kafka_hook.py): the registry of enabled hook definitions kept in the    *)
(* shared cache, the matching of document lifecycle events against it      *)
(* (run_webhooks), the after-commit hand-off to the job queue, and the     *)
(* Publisher (run_kafka_hook / _run_kafka_hook).                           *)
(*                                                                         *)
(* An optional Python value (None or a value) is a sequence of length 0 or *)
(* 1; a Python dict is a function whose DOMAIN is the set of its keys.     *)
(***************************************************************************)
EXTENDS Integers, Sequences, FiniteSets, TLC

\* ------------------------------------------------------------------ bounds
MaxWrites == 2      \* definition writes (save / delete) per behaviour
MaxFetch  == 3      \* registry fetches per behaviour
MaxEvents == 2      \* lifecycle events handed to run_webhooks per unit
MaxTxn    == 2      \* transactions (commit or rollback) per unit
MaxBatch  == 3      \* length of a doc_list handed to run_kafka_hook

\* ------------------------------------------------------------- value sets
HookNames == {"w1", "w2"}
DocTypeNames == {"A", "B"}
Procs == {"p1", "p2"}

NoValue == << >>
Some(v) == << v >>

\* dict.get(k) : None when the key is missing
DictGet(d, k) == IF k \in DOMAIN d THEN Some(d[k]) ELSE NoValue

\* dict.setdefault(k, []).append(v)
SetDefaultAppend(d, k, v) ==
    IF k \in DOMAIN d
    THEN [d EXCEPT ![k] = Append(@, v)]
    ELSE [x \in (DOMAIN d) \cup {k} |-> IF x = k THEN << v >> ELSE d[x]]

EmptyDict == [x \in {} |-> << >>]

\* ------------------------------------------------------ webhook registry
\* frappe.get_all("Kafka Hook", fields=[name, condition, webhook_docevent,
\* webhook_doctype], filters={"enabled": True}) over the committed table
Projection(r) ==
    [name |-> r.name, condition |-> r.condition,
     webhook_docevent |-> r.webhook_docevent,
     webhook_doctype |-> r.webhook_doctype]

\* the query without its enabled filter
get_all_unfiltered(table) == [i \in DOMAIN table |-> Projection(table[i])]

RECURSIVE get_all(_)
get_all(table) ==
    IF table = << >> THEN << >>
    ELSE IF Head(table).enabled
         THEN << Projection(Head(table)) >> \o get_all(Tail(table))
         ELSE get_all(Tail(table))

RECURSIVE GroupRows(_, _)
GroupRows(webhooks_list, webhooks) ==
    IF webhooks_list = << >> THEN webhooks
    ELSE LET w == Head(webhooks_list)
         IN  GroupRows(Tail(webhooks_list),
                       SetDefaultAppend(webhooks, w.webhook_doctype, w))

generate_kafkahook(table) == GroupRows(get_all(table), EmptyDict)

\* ------------------------------------------------------ definition store
HookEvents == {"after_insert", "on_update", "on_change", "on_submit",
               "on_cancel", "before_update_after_submit", "on_trash"}
Conditions == {"", "doc.status == \"Approved\"",
               "doc.status and 1 / (len(doc.status) - 5) > 0"}

AllRows == [name : HookNames, enabled : BOOLEAN,
            webhook_doctype : DocTypeNames,
            webhook_docevent : HookEvents, condition : Conditions]

\* rows written by the definition-store actions of the registry specifications
RegistryRows == {r \in AllRows : r.webhook_docevent = "on_update"
                                   /\ r.condition = ""}

HasRow(table, n) == \E i \in DOMAIN table : table[i].name = n

\* insert of a new Kafka Hook document, or save of an existing one
SaveRow(table, row) ==
    IF HasRow(table, row.name)
    THEN [i \in DOMAIN table |->
             IF table[i].name = row.name THEN row ELSE table[i]]
    ELSE Append(table, row)

DeleteRow(table, n) == SelectSeq(table, LAMBDA r : r.name # n)

\* frappe.safe_eval(condition, {"doc": doc}) : "True", "False" or "raise";
\* a status that is not set (None) is the status Unset
Unset == "<unset>"
safe_eval(condition, doc) ==
    IF condition = "doc.status == \"Approved\""
    THEN IF doc.status = "Approved" THEN "True" ELSE "False"
    ELSE \* doc.status and 1 / (len(doc.status) - 5) > 0 :
         \* falsy on an unset status, ZeroDivisionError on "Draft"
         IF doc.status = Unset THEN "False"
         ELSE IF doc.status = "Draft" THEN "raise" ELSE "True"

\* KafkaHook.validate_condition : the condition must evaluate on a new document
validate_condition(row) ==
    \/ row.condition = ""
    \/ safe_eval(row.condition,
                 [name |-> "new", doctype |-> row.webhook_doctype,
                  status |-> Unset, in_insert |-> FALSE]) # "raise"

\* frappe.get_value("DocType", doctype, "is_submittable")
is_submittable == [t \in DocTypeNames |-> t = "B"]

\* KafkaHook.validate_docevent : TRUE when the save is not rejected
validate_docevent(row) ==
    ~ (/\ ~is_submittable[row.webhook_doctype]
       /\ row.webhook_docevent \in {"on_submit", "on_cancel",
                                    "on_update_after_submit"})

\* KafkaHook.validate
validate(row) == validate_docevent(row) /\ validate_condition(row)

VARIABLES
    store,      \* committed rows of the Kafka Hook table, in table order
    wtx,        \* the writing transaction's uncommitted table, if one is open
    cache,      \* shared cache slot "kafkahook"
    nWrites,    \* definition writes so far
    rpc,        \* per process: position inside cache.get_value
    rlocal,     \* per process: the value its generator returned
    rret,       \* per process: what its last fetch returned
    fetchLog,   \* sequential fetches since the last invalidation
    nFetch      \* fetches so far

regVars == << store, wtx, cache, nWrites, rpc, rlocal, rret, fetchLog, nFetch >>

\* KafkaHook.on_update / on_trash : frappe.cache().delete_value("kafkahook")
on_update(c) == NoValue
on_trash(c) == NoValue

\* the generated value is returned but never written to the cache slot
fetch_without_set(c, table) ==
    IF c # NoValue
    THEN [val |-> c[1], cache |-> c, queried |-> FALSE]
    ELSE [val |-> generate_kafkahook(table), cache |-> c, queried |-> TRUE]

\* frappe.cache().get_value("kafkahook", generator=generate_kafkahook),
\* called by one process with nothing in between
fetch_webhooks_from_redis(c, table) ==
    IF c # NoValue
    THEN [val |-> c[1], cache |-> c, queried |-> FALSE]
    ELSE LET v == generate_kafkahook(table)
         IN  [val |-> v, cache |-> Some(v), queried |-> TRUE]

\* save of a Kafka Hook document inside the writer's transaction: validate
\* accepts the row, the row is written, then on_update evicts the cache slot;
\* commit is later
SaveHook(row) ==
    /\ wtx = NoValue
    /\ nWrites < MaxWrites
    /\ validate(row)
    /\ wtx' = Some(SaveRow(store, row))
    /\ cache' = on_update(cache)
    /\ fetchLog' = << >>
    /\ nWrites' = nWrites + 1
    /\ UNCHANGED << store, rpc, rlocal, rret, nFetch >>

\* delete of a Kafka Hook document: on_trash evicts the cache slot
TrashHook(n) ==
    /\ wtx = NoValue
    /\ nWrites < MaxWrites
    /\ HasRow(store, n)
    /\ wtx' = Some(DeleteRow(store, n))
    /\ cache' = on_trash(cache)
    /\ fetchLog' = << >>
    /\ nWrites' = nWrites + 1
    /\ UNCHANGED << store, rpc, rlocal, rret, nFetch >>

CommitWrite ==
    /\ wtx # NoValue
    /\ store' = wtx[1]
    /\ wtx' = NoValue
    /\ UNCHANGED << cache, nWrites, rpc, rlocal, rret, fetchLog, nFetch >>

RollbackWrite ==
    /\ wtx # NoValue
    /\ wtx' = NoValue
    /\ UNCHANGED << store, cache, nWrites, rpc, rlocal, rret, fetchLog, nFetch >>

\* one process calls fetch_webhooks_from_redis() start to end
FetchCall ==
    /\ nFetch < MaxFetch
    /\ LET r == fetch_webhooks_from_redis(cache, store)
       IN  /\ cache' = r.cache
           /\ fetchLog' = Append(fetchLog,
                                 [val |-> r.val, queried |-> r.queried,
                                  table |-> store])
    /\ nFetch' = nFetch + 1
    /\ UNCHANGED << store, wtx, nWrites, rpc, rlocal, rret >>

\* the same call interleaved with other processes: the cache read and, on a
\* miss, the generator's store query ...
GetValueBegin(p) ==
    /\ rpc[p] = "idle"
    /\ nFetch < MaxFetch
    /\ nFetch' = nFetch + 1
    /\ IF cache # NoValue
       THEN /\ rret' = [rret EXCEPT ![p] = cache]
            /\ UNCHANGED << rpc, rlocal >>
       ELSE /\ rlocal' = [rlocal EXCEPT ![p] = Some(generate_kafkahook(store))]
            /\ rpc' = [rpc EXCEPT ![p] = "generated"]
            /\ UNCHANGED rret
    /\ UNCHANGED << store, wtx, cache, nWrites, fetchLog >>

\* ... and then the write of the generated value into the cache slot
SetValue(p) ==
    /\ rpc[p] = "generated"
    /\ cache' = rlocal[p]
    /\ rret' = [rret EXCEPT ![p] = rlocal[p]]
    /\ rpc' = [rpc EXCEPT ![p] = "idle"]
    /\ UNCHANGED << store, wtx, nWrites, rlocal, fetchLog, nFetch >>

\* ---------------------------------------------------------------- publisher
DocNames == {"d1", "d2", "d3"}
DocTypeOf == [d \in DocNames |-> IF d = "d3" THEN "B" ELSE "A"]
Statuses == {"Draft", "Approved"}

\* publisher fields of a Kafka Hook document (frappe.get_cached_doc)
PublisherHooks ==
    [name : HookNames, process_data : {"Template", "Method"},
     webhook_method : {"", "app.make_payload"},
     kafka_topic : {"orders"}, kafka_settings : {"broker1"}]

\* what the collaborators do for one document: frappe.get_doc finds it or
\* not, the template / method builds or raises, the built data exposes .id or
\* not, send_kafka acknowledges or raises
ItemEnvs ==
    {e \in [exists : BOOLEAN, build : {"ok", "raise"}, has_id : BOOLEAN,
            send : {"ack", "raise"}] :
        /\ ~e.exists => (e.build = "ok" /\ e.has_id /\ e.send = "ack")
        /\ e.build = "raise" => (e.has_id /\ e.send = "ack")}

NoEffect == [raised |-> FALSE, audit |-> << >>, errlog |-> << >>, sends |-> << >>]
Raise(what) == [NoEffect EXCEPT !.raised = TRUE]

\* log_request(topic, settings, data, response) : one audit record
log_request(topic, settings, data, response) ==
    [topic |-> topic, settings |-> settings, data |-> data,
     response |-> response]

\* get_webhook_data : the payload, or "raise"
get_webhook_data(doc, hook, env) ==
    IF hook.process_data = "Method"
    THEN IF hook.webhook_method = "" \/ env.build = "raise"
         THEN [raised |-> TRUE]
         ELSE [raised |-> FALSE,
               data |-> [doc |-> doc.name, id |-> IF env.has_id
                                                   THEN Some("id-" \o doc.name)
                                                   ELSE NoValue],
               proto_obj |-> Some("proto")]
    ELSE IF env.build = "raise"
         THEN [raised |-> TRUE]
         ELSE [raised |-> FALSE,
               data |-> [doc |-> doc.name, id |-> NoValue],
               proto_obj |-> NoValue]

\* the send without the try / except around it
SendAndLogNoCatch(hook, doc, data, key, is_protobuf_obj, env) ==
    LET msg == [hook |-> hook.name, doc |-> doc.name,
                topic |-> hook.kafka_topic, key |-> key,
                is_protobuf_obj |-> is_protobuf_obj, ok |-> env.send = "ack"]
    IN  IF env.send = "ack"
        THEN [raised |-> FALSE,
              audit |-> << log_request(<< hook.kafka_topic >>,
                                       hook.kafka_settings, data.data,
                                       Some("ack")) >>,
              errlog |-> << >>,
              sends |-> << msg >>]
        ELSE [raised |-> TRUE, audit |-> << >>, errlog |-> << >>,
              sends |-> << msg >>]

\* the except clause logs the failure under the plain topic
SendAndLogNoPrefix(hook, doc, data, key, is_protobuf_obj, env) ==
    LET msg == [hook |-> hook.name, doc |-> doc.name,
                topic |-> hook.kafka_topic, key |-> key,
                is_protobuf_obj |-> is_protobuf_obj, ok |-> env.send = "ack"]
    IN  [raised |-> FALSE,
         audit |-> << log_request(<< hook.kafka_topic >>, hook.kafka_settings,
                                  data.data,
                                  IF env.send = "ack" THEN Some("ack")
                                  ELSE NoValue) >>,
         errlog |-> IF env.send = "ack" THEN << >> ELSE << "send_kafka" >>,
         sends |-> << msg >>]

\* a failed send is tried a second time before the failure is recorded
SendAndLogRetry(hook, doc, data, key, is_protobuf_obj, env) ==
    LET msg == [hook |-> hook.name, doc |-> doc.name,
                topic |-> hook.kafka_topic, key |-> key,
                is_protobuf_obj |-> is_protobuf_obj, ok |-> env.send = "ack"]
    IN  IF env.send = "ack"
        THEN [raised |-> FALSE,
              audit |-> << log_request(<< hook.kafka_topic >>,
                                       hook.kafka_settings, data.data,
                                       Some("ack")) >>,
              errlog |-> << >>,
              sends |-> << msg >>]
        ELSE [raised |-> FALSE,
              audit |-> << log_request(<< "Error: ", hook.kafka_topic >>,
                                       hook.kafka_settings, data.data,
                                       NoValue) >>,
              errlog |-> << "send_kafka" >>,
              sends |-> << msg, msg >>]

\* the except clause logs the error but writes no audit record
SendAndLogNoAudit(hook, doc, data, key, is_protobuf_obj, env) ==
    LET msg == [hook |-> hook.name, doc |-> doc.name,
                topic |-> hook.kafka_topic, key |-> key,
                is_protobuf_obj |-> is_protobuf_obj, ok |-> env.send = "ack"]
    IN  IF env.send = "ack"
        THEN [raised |-> FALSE,
              audit |-> << log_request(<< hook.kafka_topic >>,
                                       hook.kafka_settings, data.data,
                                       Some("ack")) >>,
              errlog |-> << >>,
              sends |-> << msg >>]
        ELSE [raised |-> FALSE, audit |-> << >>,
              errlog |-> << "send_kafka" >>,
              sends |-> << msg >>]

\* the success path records the send under the failure mark as well
SendAndLogAlwaysError(hook, doc, data, key, is_protobuf_obj, env) ==
    LET msg == [hook |-> hook.name, doc |-> doc.name,
                topic |-> hook.kafka_topic, key |-> key,
                is_protobuf_obj |-> is_protobuf_obj, ok |-> env.send = "ack"]
    IN  [raised |-> FALSE,
         audit |-> << log_request(<< "Error: ", hook.kafka_topic >>,
                                  hook.kafka_settings, data.data,
                                  IF env.send = "ack" THEN Some("ack")
                                  ELSE NoValue) >>,
         errlog |-> IF env.send = "ack" THEN << >> ELSE << "send_kafka" >>,
         sends |-> << msg >>]

\* lines 101-120 of _run_kafka_hook : the send and the two audit writes
SendAndLog(hook, doc, data, key, is_protobuf_obj, env) ==
    LET msg == [hook |-> hook.name, doc |-> doc.name,
                topic |-> hook.kafka_topic, key |-> key,
                is_protobuf_obj |-> is_protobuf_obj, ok |-> env.send = "ack"]
    IN  IF env.send = "ack"
        THEN [raised |-> FALSE,
              audit |-> << log_request(<< hook.kafka_topic >>,
                                       hook.kafka_settings, data.data,
                                       Some("ack")) >>,
              errlog |-> << >>,
              sends |-> << msg >>]
        ELSE [raised |-> FALSE,
              audit |-> << log_request(<< "Error: ", hook.kafka_topic >>,
                                       hook.kafka_settings, data.data,
                                       NoValue) >>,
              errlog |-> << "send_kafka" >>,
              sends |-> << msg >>]

\* _run_kafka_hook(hook, doc)
run_one_kafka_hook(hook, doc, env) ==
    LET data == get_webhook_data(doc, hook, env)
    IN  IF data.raised THEN Raise("get_webhook_data")
        ELSE IF hook.process_data = "Method" /\ hook.webhook_method # ""
             THEN IF data.data.id = NoValue
                  THEN Raise("data.id")
                  ELSE SendAndLog(hook, doc, data, data.data.id, TRUE, env)
             ELSE SendAndLog(hook, doc, data, NoValue, FALSE, env)

\* the except clause of the loop without its re-raise for live requests
BatchIterationSwallow(hook, doc_name, is_from_request, env) ==
    LET r == IF ~env.exists THEN Raise("get_doc")
             ELSE run_one_kafka_hook(hook, [name |-> doc_name], env)
    IN  IF ~r.raised THEN r @@ [abort |-> FALSE]
        ELSE [r EXCEPT !.raised = FALSE,
                       !.errlog = Append(@, "Error running Kafka Hook")]
             @@ [abort |-> FALSE]

\* one pass of the loop of run_kafka_hook : get_doc, _run_kafka_hook, and the
\* except clause; "abort" is the re-raise of line 88
BatchIteration(hook, doc_name, is_from_request, env) ==
    LET r == IF ~env.exists THEN Raise("get_doc")
             ELSE run_one_kafka_hook(hook, [name |-> doc_name], env)
    IN  IF ~r.raised THEN r @@ [abort |-> FALSE]
        ELSE IF is_from_request THEN r @@ [abort |-> TRUE]
        ELSE [r EXCEPT !.raised = FALSE,
                       !.errlog = Append(@, "Error running Kafka Hook")]
             @@ [abort |-> FALSE]

VARIABLES
    call,       \* arguments of the run_kafka_hook call and bool(frappe.request)
    ppc,        \* "start", "loop", "returned", "raised"
    doc_list,   \* the list the loop walks
    pidx,       \* next position in doc_list
    items,      \* per document handled: its collaborators' behaviour, what
                \* the handling wrote, and whether an exception left the call
    audit,      \* audit log (log_request), append-only
    errlog,     \* error log (frappe.log_error)
    sends       \* calls of send_kafka

pubVars == << call, ppc, doc_list, pidx, items, audit, errlog, sends >>

\* lines 72-80 : the single-document path, or the start of the batch path
StartCall(env) ==
    /\ ppc = "start"
    /\ IF call.doc # NoValue
       THEN LET r == run_one_kafka_hook(call.hook, call.doc[1], env)
            IN  /\ env.exists
                /\ ppc' = IF r.raised THEN "raised" ELSE "returned"
                /\ audit' = audit \o r.audit
                /\ errlog' = errlog \o r.errlog
                /\ sends' = sends \o r.sends
                /\ items' = Append(items, [env |-> env, audit |-> r.audit,
                                           errlog |-> r.errlog,
                                           sends |-> r.sends,
                                           raised |-> r.raised])
                /\ UNCHANGED << doc_list, pidx >>
       ELSE /\ env = CHOOSE e \in ItemEnvs : TRUE
            /\ doc_list' = IF call.doc_list.is_str
                           THEN << call.doc_list.value >>
                           ELSE call.doc_list.value
            /\ ppc' = IF doc_list' = << >> THEN "returned" ELSE "loop"
            /\ UNCHANGED << pidx, items, audit, errlog, sends >>
    /\ UNCHANGED << call >>

\* lines 82-90 : one item of doc_list
BatchItem(env) ==
    /\ ppc = "loop"
    /\ LET r == BatchIteration(call.hook, doc_list[pidx],
                               call.is_from_request, env)
       IN  /\ audit' = audit \o r.audit
           /\ errlog' = errlog \o r.errlog
           /\ sends' = sends \o r.sends
           /\ items' = Append(items, [env |-> env, audit |-> r.audit,
                                      errlog |-> r.errlog, sends |-> r.sends,
                                      raised |-> r.abort])
           /\ IF r.abort
              THEN ppc' = "raised" /\ pidx' = pidx
              ELSE /\ pidx' = pidx + 1
                   /\ ppc' = IF pidx' > Len(doc_list) THEN "returned" ELSE "loop"
    /\ UNCHANGED << call, doc_list >>

\* ------------------------------------------------------- event matching
\* hooks.py registers run_webhooks for every document event; "validate" stands
\* for the events that are never applicable
Methods == HookEvents \cup {"validate"}
FlagNames == {"in_import", "in_patch", "in_install", "in_migrate"}
Range(f) == {f[x] : x \in DOMAIN f}

\* the check of the unit's flags without in_migrate
IgnoredUnitNoMigrate(fl) ==
    \/ "in_import" \in fl
    \/ "in_patch" \in fl
    \/ "in_install" \in fl

\* lines 155-161 : the units of work that dispatch nothing
IgnoredUnit(fl) ==
    \/ "in_import" \in fl
    \/ "in_patch" \in fl
    \/ "in_install" \in fl
    \/ "in_migrate" \in fl

\* the event set without the in_insert test
event_list_always(doc) ==
    {"on_update", "after_insert", "on_submit", "on_cancel", "on_trash",
     "on_change", "before_update_after_submit"}

\* lines 163-169
event_list(doc) ==
    {"on_update", "after_insert", "on_submit", "on_cancel", "on_trash"}
    \cup (IF ~doc.in_insert THEN {"on_change", "before_update_after_submit"}
          ELSE {})

\* the executed-webhook test left out
NeverExecuted(executed, doc, webhook) == FALSE

\* line 191 : webhook.name in kafkahook_executed.get(doc.name, [])
AlreadyExecuted(executed, doc, webhook) ==
    /\ doc.name \in DOMAIN executed
    /\ webhook.name \in Range(executed[doc.name])

\* the condition is evaluated but its value is not looked at
trigger_always(webhook, doc) ==
    IF webhook.condition = "" THEN "True"
    ELSE IF safe_eval(webhook.condition, doc) = "raise" THEN "raise"
    ELSE "True"

\* an exception of the evaluator is caught and counts as a false condition
trigger_swallow(webhook, doc) ==
    IF webhook.condition = "" THEN "True"
    ELSE IF safe_eval(webhook.condition, doc) = "raise" THEN "False"
    ELSE safe_eval(webhook.condition, doc)

\* lines 195-205 : "True" (trigger), "False" (skip) or "raise"
trigger_webhook(webhook, doc) ==
    IF webhook.condition = "" THEN "True"
    ELSE safe_eval(webhook.condition, doc)

\* the hand-off is not recorded
RecordNothing(executed, doc, webhook) == executed

\* line 217
RecordExecuted(executed, doc, webhook) ==
    SetDefaultAppend(executed, doc.name, webhook.name)

\* lines 186-217 : the loop over webhooks_for_doc; fired is the sequence of
\* webhooks handed to frappe.enqueue
RECURSIVE MatchLoop(_, _, _, _, _)
MatchLoop(webhooks, doc, method, executed, fired) ==
    IF webhooks = << >>
    THEN [executed |-> executed, fired |-> fired, raised |-> FALSE]
    ELSE LET webhook == Head(webhooks)
             rest == Tail(webhooks)
         IN  IF webhook.webhook_docevent # method
             THEN MatchLoop(rest, doc, method, executed, fired)
             ELSE IF AlreadyExecuted(executed, doc, webhook)
             THEN MatchLoop(rest, doc, method, executed, fired)
             ELSE LET t == trigger_webhook(webhook, doc)
                  IN  IF t = "raise"
                      THEN [executed |-> executed, fired |-> fired,
                            raised |-> TRUE]
                      ELSE IF t = "False"
                      THEN MatchLoop(rest, doc, method, executed, fired)
                      ELSE MatchLoop(rest, doc, method,
                                     RecordExecuted(executed, doc, webhook),
                                     Append(fired, webhook))

\* the registry is fetched on every event, memoized or not
LoadRegistryAlways(memo, c, table) == fetch_webhooks_from_redis(c, table)

\* lines 178-179 : frappe.flags.kafkahook is fetched only while it is None
LoadRegistry(memo, c, table) ==
    IF memo = NoValue
    THEN fetch_webhooks_from_redis(c, table)
    ELSE [val |-> memo[1], cache |-> c, queried |-> FALSE]

\* run_webhooks(doc, method) on the flags of the unit of work (fl: in_import
\* ..., memo: frappe.flags.kafkahook, executed: frappe.flags.kafkahook_executed)
\* and the shared cache c over the committed table
run_webhooks(doc, method, fl, memo, executed, c, table) ==
    LET same == [kafkahook |-> memo, kafkahook_executed |-> executed,
                 cache |-> c, fired |-> << >>, queried |-> FALSE]
    IN  IF IgnoredUnit(fl) THEN same @@ [result |-> "ignored_unit"]
        ELSE IF method \notin event_list(doc)
        THEN same @@ [result |-> "not_applicable"]
        ELSE LET ex == IF executed = NoValue THEN EmptyDict ELSE executed[1]
                 f == LoadRegistry(memo, c, table)
                 webhooks_for_doc == DictGet(f.val, doc.doctype)
             IN  IF webhooks_for_doc = NoValue \/ webhooks_for_doc = Some(<< >>)
                 THEN [kafkahook |-> Some(f.val),
                       kafkahook_executed |-> Some(ex), cache |-> f.cache,
                       fired |-> << >>, queried |-> f.queried,
                       result |-> "no_webhooks"]
                 ELSE LET m == MatchLoop(webhooks_for_doc[1], doc, method,
                                         ex, << >>)
                      IN  [kafkahook |-> Some(f.val),
                           kafkahook_executed |-> Some(m.executed),
                           cache |-> f.cache, fired |-> m.fired,
                           queried |-> f.queried,
                           result |-> IF m.raised THEN "raised" ELSE "done"]

\* ---------------------------------------------------------------- dispatcher
\* frappe.enqueue(..., enqueue_after_commit=..., doc=doc, kafka_hook_name=...)
\* : held in frappe.flags.enqueue_after_commit until the commit, or put on the
\* job queue at once; q is [after_commit, queue]
enqueue(q, task, enqueue_after_commit) ==
    IF enqueue_after_commit
    THEN [q EXCEPT !.after_commit = Append(@, task)]
    ELSE [q EXCEPT !.queue = Append(@, task)]

\* the hand-off with enqueue_after_commit left at its default
ScheduleNow(q, task) == enqueue(q, task, FALSE)

\* lines 207-212
Schedule(q, task) == enqueue(q, task, TRUE)

RECURSIVE ScheduleAll(_, _)
ScheduleAll(q, tasks) ==
    IF tasks = << >> THEN q
    ELSE ScheduleAll(Schedule(q, Head(tasks)), Tail(tasks))

VARIABLES
    in_insert,           \* per document: doc.flags.in_insert
    kafkahook,           \* frappe.flags.kafkahook
    kafkahook_executed,  \* frappe.flags.kafkahook_executed
    after_commit,        \* frappe.flags.enqueue_after_commit
    queue,               \* the job queue the workers read
    txlog,               \* how each ended transaction of the unit ended
    handed,              \* every task handed to frappe.enqueue in the unit
    ran,                 \* every task a worker ran
    last,                \* the last run_webhooks call and what it did
    nEvents              \* run_webhooks calls so far

unitVars == << in_insert, kafkahook, kafkahook_executed, after_commit, queue,
               txlog, handed, ran, last, nEvents >>

CurrentTxn == Len(txlog) + 1
TxnState(t) == IF t <= Len(txlog) THEN txlog[t] ELSE "open"

\* what is kept of a run_webhooks call: the result, and of the arguments what
\* the result depended on; table is the committed Kafka Hook table at the call
LastCall(doc, method, fl, r, executed, table) ==
    IF r.result = "ignored_unit"
    THEN [result |-> r.result, flags |-> fl]
    ELSE IF r.result = "not_applicable"
    THEN [result |-> r.result, flags |-> fl, method |-> method,
          in_insert |-> doc.in_insert]
    ELSE [result |-> r.result, flags |-> fl, method |-> method, doc |-> doc,
          table |-> table,
          fired |-> {r.fired[i].name : i \in DOMAIN r.fired},
          before |-> IF executed # NoValue /\ doc.name \in DOMAIN executed[1]
                     THEN Range(executed[1][doc.name])
                     ELSE {}]

\* a lifecycle event of document d reaches run_webhooks
RunWebhooks(d, method, st, fl) ==
    /\ nEvents < MaxEvents
    /\ LET doc == [name |-> d, doctype |-> DocTypeOf[d], status |-> st,
                   in_insert |-> in_insert[d]]
       IN  \E r \in {run_webhooks(doc, method, fl, kafkahook,
                                  kafkahook_executed, cache, store)} :
           \E tasks \in {[i \in DOMAIN r.fired |->
                            [kafka_hook_name |-> r.fired[i].name, doc |-> doc,
                             method |-> method,
                             webhook_docevent |-> r.fired[i].webhook_docevent,
                             txn |-> CurrentTxn]]} :
           \E q \in {ScheduleAll([after_commit |-> after_commit,
                                  queue |-> queue], tasks)} :
               /\ kafkahook' = r.kafkahook
               /\ kafkahook_executed' = r.kafkahook_executed
               /\ cache' = r.cache
               /\ after_commit' = q.after_commit
               /\ queue' = q.queue
               /\ handed' = handed \o tasks
               /\ last' = Some(LastCall(doc, method, fl, r, kafkahook_executed,
                                            store))
    /\ nEvents' = nEvents + 1
    /\ UNCHANGED << in_insert, txlog, ran >>
    /\ UNCHANGED << store, wtx, nWrites, rpc, rlocal, rret, fetchLog, nFetch >>
    /\ UNCHANGED pubVars

\* Document.insert() returns: the document is no longer being inserted
FinishInsert(d) ==
    /\ in_insert[d]
    /\ in_insert' = [in_insert EXCEPT ![d] = FALSE]
    /\ UNCHANGED << kafkahook, kafkahook_executed, after_commit, queue, txlog,
                    handed, ran, last, nEvents >>
    /\ UNCHANGED << regVars, pubVars >>

\* frappe.db.commit() : the held tasks go to the job queue
Commit ==
    /\ Len(txlog) < MaxTxn
    /\ queue' = queue \o after_commit
    /\ after_commit' = << >>
    /\ txlog' = Append(txlog, "committed")
    /\ UNCHANGED << in_insert, kafkahook, kafkahook_executed, handed, ran,
                    last, nEvents >>
    /\ UNCHANGED << regVars, pubVars >>

\* frappe.db.rollback() : the held tasks are dropped
Rollback ==
    /\ Len(txlog) < MaxTxn
    /\ after_commit' = << >>
    /\ txlog' = Append(txlog, "rolledback")
    /\ UNCHANGED << in_insert, kafkahook, kafkahook_executed, queue, handed,
                    ran, last, nEvents >>
    /\ UNCHANGED << regVars, pubVars >>

\* publisher fields of the Kafka Hook documents of the dispatch specification
HookDoc(n) ==
    [name |-> n,
     process_data |-> IF n = "w1" THEN "Template" ELSE "Method",
     webhook_method |-> IF n = "w1" THEN "" ELSE "app.make_payload",
     kafka_topic |-> "orders", kafka_settings |-> "broker1"]

\* the definition of hook n in the committed table when a task for it runs
DefinitionState(table, n) ==
    IF ~HasRow(table, n) THEN "deleted"
    ELSE IF \E i \in DOMAIN table : table[i].name = n /\ table[i].enabled
    THEN "enabled"
    ELSE "disabled"

\* the document cache keeps serving a Kafka Hook document that was deleted
get_cached_doc_stale(table, n) == Some(HookDoc(n))

\* frappe.get_cached_doc("Kafka Hook", kafka_hook_name) : the document, or
\* nothing (DoesNotExistError) when it is not in the table; enabled is not
\* looked at
get_cached_doc(table, n) ==
    IF HasRow(table, n) THEN Some(HookDoc(n)) ELSE NoValue

\* a worker takes the oldest task off the job queue and calls
\* run_kafka_hook(kafka_hook_name=..., doc=doc)
RunJob(env) ==
    /\ queue # << >>
    /\ env.exists
    /\ LET task == Head(queue)
       IN  \E hook \in {get_cached_doc(store, task.kafka_hook_name)} :
           \E r \in {IF hook = NoValue THEN Raise("get_cached_doc")
                     ELSE run_one_kafka_hook(hook[1], task.doc, env)} :
               /\ audit' = audit \o r.audit
               /\ errlog' = errlog \o r.errlog
               /\ sends' = sends \o r.sends
               /\ ran' = Append(ran,
                      [task |-> task,
                       txn_state |-> TxnState(task.txn),
                       definition |-> DefinitionState(store,
                                                      task.kafka_hook_name),
                       env |-> env,
                       audit |-> r.audit,
                       sends |-> r.sends,
                       raised |-> r.raised])
    /\ queue' = Tail(queue)
    /\ UNCHANGED << in_insert, kafkahook, kafkahook_executed, after_commit,
                    txlog, handed, last, nEvents >>
    /\ UNCHANGED << call, ppc, doc_list, pidx, items >>
    /\ UNCHANGED regVars

vars == << regVars, pubVars, unitVars >>

InitReg ==
    /\ store = << >>
    /\ wtx = NoValue
    /\ cache = NoValue
    /\ nWrites = 0
    /\ rpc = [p \in Procs |-> "idle"]
    /\ rlocal = [p \in Procs |-> NoValue]
    /\ rret = [p \in Procs |-> NoValue]
    /\ fetchLog = << >>
    /\ nFetch = 0

\* no run_kafka_hook call in progress
IdlePub ==
    /\ call = NoValue
    /\ ppc = "returned"
    /\ doc_list = << >>
    /\ pidx = 1
    /\ items = << >>
    /\ audit = << >>
    /\ errlog = << >>
    /\ sends = << >>

\* the first n document names, in a fixed order
DocSeq(n) == SubSeq(<< "d1", "d2", "d3", "d1", "d2", "d3" >>, 1, n)

Calls ==
    [hook : PublisherHooks, is_from_request : BOOLEAN,
     doc : {NoValue}, 
     doc_list : {[is_str |-> TRUE, value |-> "d1"]}
                \cup {[is_str |-> FALSE, value |-> DocSeq(n)] : n \in 0..MaxBatch}]
    \cup
    [hook : PublisherHooks, is_from_request : BOOLEAN,
     doc : {Some([name |-> "d1"])},
     doc_list : {[is_str |-> FALSE, value |-> << >>]}]

InitPub ==
    /\ call \in {c \in Calls : c.hook.name = "w1"}
    /\ ppc = "start"
    /\ doc_list = << >>
    /\ pidx = 1
    /\ items = << >>
    /\ audit = << >>
    /\ errlog = << >>
    /\ sends = << >>

\* no unit of work in progress
IdleUnit ==
    /\ in_insert = [d \in DocNames |-> FALSE]
    /\ kafkahook = NoValue
    /\ kafkahook_executed = NoValue
    /\ after_commit = << >>
    /\ queue = << >>
    /\ txlog = << >>
    /\ handed = << >>
    /\ ran = << >>
    /\ last = NoValue
    /\ nEvents = 0

\* the rows a save of a Kafka Hook document accepts
HookRows == {r \in AllRows : validate(r)}

\* the Kafka Hook tables of the matching specification: w1 in every
\* configuration, alone or next to w2 (on doctype A, enabled) in either order
MatchEvents == {"on_update", "on_change", "before_update_after_submit"}
MatchRows1 ==
    {r \in HookRows :
        /\ r.name = "w1" /\ r.webhook_docevent \in MatchEvents
        /\ ~r.enabled => r.condition = ""}
MatchRows2 ==
    {r \in HookRows :
        /\ r.name = "w2" /\ r.enabled /\ r.webhook_doctype = "A"
        /\ r.webhook_docevent \in {"on_update", "on_change"}
        /\ r.condition \in {"", "doc.status and 1 / (len(doc.status) - 5) > 0"}}
MatchTables ==
    {<< >>} \cup {<< r >> : r \in MatchRows1 \cup MatchRows2}
    \cup (MatchRows1 \X MatchRows2) \cup (MatchRows2 \X MatchRows1)

\* the documents that raise events, d1 being inserted in this unit of work
EventDocs == {"d1", "d2"}
EventMethods == MatchEvents \cup {"after_insert", "validate"}
FlagChoices == {{f} : f \in FlagNames}

InitUnit(tables) ==
    /\ store \in tables
    /\ wtx = NoValue
    /\ cache = NoValue
    /\ nWrites = 0
    /\ rpc = [p \in Procs |-> "idle"]
    /\ rlocal = [p \in Procs |-> NoValue]
    /\ rret = [p \in Procs |-> NoValue]
    /\ fetchLog = << >>
    /\ nFetch = 0
    /\ IdlePub
    /\ in_insert = [d \in DocNames |-> d = "d1"]
    /\ kafkahook = NoValue
    /\ kafkahook_executed = NoValue
    /\ after_commit = << >>
    /\ queue = << >>
    /\ txlog = << >>
    /\ handed = << >>
    /\ ran = << >>
    /\ last = NoValue
    /\ nEvents = 0

InitMatch == InitUnit(MatchTables)

NextMatch ==
    \/ \E d \in EventDocs, method \in EventMethods, st \in Statuses :
          RunWebhooks(d, method, st, {})
    \/ \E d \in EventDocs, fl \in FlagChoices :
          RunWebhooks(d, "on_update", "Approved", fl)
    \/ \E d \in EventDocs : FinishInsert(d)

SpecMatch == InitMatch /\ [][NextMatch]_vars

\* the Kafka Hook tables of the dispatch specification: enabled hooks on
\* doctype A, w1 alone or followed by w2
DispatchRows1 ==
    {r \in HookRows :
        /\ r.name = "w1" /\ r.enabled /\ r.webhook_doctype = "A"
        /\ r.webhook_docevent = "on_update"
        /\ r.condition \in {"", "doc.status == \"Approved\""}}
DispatchRows2 ==
    {r \in HookRows :
        /\ r.name = "w2" /\ r.enabled /\ r.webhook_doctype = "A"
        /\ r.webhook_docevent = "on_update"
        /\ r.condition = ""}
DispatchTables ==
    {<< r >> : r \in DispatchRows1} \cup (DispatchRows1 \X DispatchRows2)

InitDispatch == InitUnit(DispatchTables)

NextDispatch ==
    \/ \E d \in EventDocs, st \in Statuses :
          RunWebhooks(d, "on_update", st, {})
    \/ Commit
    \/ Rollback
    \/ \E env \in {e \in ItemEnvs : e.has_id} : RunJob(env)

SpecDispatch == InitDispatch /\ [][NextDispatch]_vars

\* the same unit with every behaviour of the collaborators of a job, and
\* workers that keep taking tasks off the job queue while there are any
JobEnvs == {e \in ItemEnvs : e.exists /\ (~e.has_id => e.send = "ack")}

FairTables == {t \in DispatchTables : Len(t) = 2 /\ t[1].condition = ""}

InitDispatchFair == InitUnit(FairTables)

NextDispatchFair ==
    \/ \E d \in EventDocs : RunWebhooks(d, "on_update", "Approved", {})
    \/ Commit
    \/ Rollback
    \/ \E env \in JobEnvs : RunJob(env)

SpecDispatchFair ==
    /\ InitDispatchFair
    /\ [][NextDispatchFair]_vars
    /\ WF_vars(\E env \in JobEnvs : RunJob(env))

\* a unit of work and its jobs while Kafka Hook documents are saved and
\* deleted by another process: w1 is there from the start
LifecycleRows ==
    {r \in HookRows :
        /\ r.webhook_doctype = "A" /\ r.webhook_docevent = "on_update"
        /\ r.condition = ""
        /\ r.name = "w2" => r.enabled}
LifecycleTables == {<< r >> : r \in {x \in LifecycleRows :
                                        x.name = "w1" /\ x.enabled}}
LifecycleEnvs == {e \in ItemEnvs : e.exists /\ e.has_id /\ e.build = "ok"
                                      /\ e.send = "ack"}

InitLifecycle == InitUnit(LifecycleTables)

NextLifecycle ==
    \/ \E d \in EventDocs : RunWebhooks(d, "on_update", "Approved", {})
    \/ Commit
    \/ \E env \in LifecycleEnvs : RunJob(env)
    \/ \E row \in LifecycleRows : SaveHook(row) /\ UNCHANGED << pubVars, unitVars >>
    \/ \E n \in HookNames : TrashHook(n) /\ UNCHANGED << pubVars, unitVars >>
    \/ CommitWrite /\ UNCHANGED << pubVars, unitVars >>

SpecLifecycle == InitLifecycle /\ [][NextLifecycle]_vars

InitPublisher == InitReg /\ InitPub /\ IdleUnit
NextPublisher ==
    \/ \E env \in ItemEnvs : StartCall(env) /\ UNCHANGED << regVars, unitVars >>
    \/ \E env \in ItemEnvs : BatchItem(env) /\ UNCHANGED << regVars, unitVars >>
SpecPublisher == InitPublisher /\ [][NextPublisher]_vars


InitRegistry == InitReg /\ IdlePub /\ IdleUnit

DefinitionWrite ==
    \/ \E row \in RegistryRows : SaveHook(row)
    \/ \E n \in HookNames : TrashHook(n)
    \/ CommitWrite
    \/ RollbackWrite

NextRegistrySeq ==
    \/ DefinitionWrite /\ UNCHANGED << pubVars, unitVars >>
    \/ FetchCall /\ UNCHANGED << pubVars, unitVars >>

NextRegistry ==
    \/ DefinitionWrite /\ UNCHANGED << pubVars, unitVars >>
    \/ \E p \in Procs : GetValueBegin(p) /\ UNCHANGED << pubVars, unitVars >>
    \/ \E p \in Procs : SetValue(p) /\ UNCHANGED << pubVars, unitVars >>

SpecRegistrySeq == InitRegistry /\ [][NextRegistrySeq]_vars

\* definition writes with every trigger event that needs a submittable doctype
ValidateRows ==
    {r \in AllRows :
        /\ r.enabled /\ r.condition = ""
        /\ r.webhook_docevent \in {"on_update", "on_submit", "on_cancel",
                                   "before_update_after_submit"}}

NextValidate ==
    \/ \E row \in ValidateRows : SaveHook(row) /\ UNCHANGED << pubVars, unitVars >>
    \/ \E n \in HookNames : TrashHook(n) /\ UNCHANGED << pubVars, unitVars >>
    \/ CommitWrite /\ UNCHANGED << pubVars, unitVars >>
    \/ RollbackWrite /\ UNCHANGED << pubVars, unitVars >>
    \/ FetchCall /\ UNCHANGED << pubVars, unitVars >>

SpecValidate == InitRegistry /\ [][NextValidate]_vars
SpecRegistry == InitRegistry /\ [][NextRegistry]_vars

\* ------------------------------------------------------------ registry claims
\* C6: fetches that follow one another with no invalidation in between all
\* return the grouping the first of them returned; only the first of them (the
\* cache miss, at start-up or right after an invalidation) queries the store,
\* and it returns the grouping of the table it queried.
C6_RegistryIdempotent ==
    \A i \in DOMAIN fetchLog :
        /\ fetchLog[i].val = fetchLog[1].val
        /\ fetchLog[i].queried = (i = 1)
        /\ i = 1 => fetchLog[i].val = generate_kafkahook(fetchLog[i].table)

\* a non-empty grouping served twice after an invalidation
C6_Witness ==
    /\ nWrites >= 1
    /\ Len(fetchLog) >= 2
    /\ fetchLog[2].val # EmptyDict

\* C7: once a definition write has invalidated the cache, no transaction is
\* open and no rebuild is in flight, the cache slot is empty or holds the
\* grouping of the persisted enabled definitions.
C7_NoStaleRegistry ==
    (nWrites >= 1 /\ wtx = NoValue /\ \A p \in Procs : rpc[p] = "idle")
        => (cache = NoValue \/ cache[1] = generate_kafkahook(store))

\* ----------------------------------------------------------- publisher claims
IsBatch == call # NoValue /\ call.doc = NoValue
Finished == ppc \in {"returned", "raised"}

\* the collaborators' behaviour for one document, by the step that raises
BuildRaises(h, e) ==
    e.build = "raise" \/ (h.process_data = "Method" /\ h.webhook_method = "")
KeyRaises(h, e) ==
    /\ ~BuildRaises(h, e)
    /\ h.process_data = "Method" /\ h.webhook_method # "" /\ ~e.has_id
SendRaises(h, e) ==
    ~BuildRaises(h, e) /\ ~KeyRaises(h, e) /\ e.send = "raise"

FailureAudit(h, it) ==
    /\ Len(it.audit) = 1
    /\ it.audit[1].topic = << "Error: ", h.kafka_topic >>
    /\ it.audit[1].response = NoValue
    /\ "doc" \in DOMAIN it.audit[1].data

\* C3 as stated: every exception of steps 2-4 (build, key, send) is logged,
\* leaves a failure-marked audit record and does not leave the Publisher.
C3_EveryFailureAudited ==
    \A i \in DOMAIN items :
        LET e == items[i].env
            h == call.hook
        IN  (e.exists /\ (BuildRaises(h, e) \/ KeyRaises(h, e) \/ SendRaises(h, e)))
                => /\ FailureAudit(h, items[i])
                   /\ items[i].errlog # << >>
                   /\ ~items[i].raised

\* C3 amended: an exception of the broker send is logged, leaves one
\* failure-marked audit record (payload body, null response) and is not
\* re-raised; an exception of the payload build or of the key read leaves no
\* audit record and no send, and leaves run_kafka_hook exactly in the
\* single-document path and in a batch called from a live request.
C3_SendFailureAudited ==
    \A i \in DOMAIN items :
        LET e == items[i].env
            h == call.hook
        IN  /\ (e.exists /\ SendRaises(h, e))
                => /\ FailureAudit(h, items[i])
                   /\ "send_kafka" \in {items[i].errlog[k] :
                                           k \in DOMAIN items[i].errlog}
                   /\ ~items[i].raised
            /\ (e.exists /\ (BuildRaises(h, e) \/ KeyRaises(h, e)))
                => /\ items[i].audit = << >>
                   /\ items[i].sends = << >>
                   /\ items[i].raised = (~IsBatch \/ call.is_from_request)

\* a batch outside a request in which one document failed at the send and
\* another at the build or the key
C3_Witness ==
    /\ IsBatch /\ ~call.is_from_request
    /\ \E i \in DOMAIN items : SendRaises(call.hook, items[i].env)
    /\ \E j \in DOMAIN items :
          /\ items[j].env.exists
          /\ BuildRaises(call.hook, items[j].env) \/ KeyRaises(call.hook, items[j].env)

SendFailed(it) == it.sends # << >> /\ ~it.sends[1].ok

\* C4: a failed broker send leaves a failure-marked audit record for its
\* document and does not end the call: run_kafka_hook does not raise at that
\* document, and when the call has ended the document after it was handled.
C4_SendFailureIsolated ==
    \A i \in DOMAIN items :
        SendFailed(items[i])
            => /\ Len(items[i].audit) = 1
               /\ items[i].audit[1].topic[1] = "Error: "
               /\ ~items[i].raised
               /\ ~(ppc = "raised" /\ i = Len(items))
               /\ (IsBatch /\ Finished /\ i < Len(doc_list)) => Len(items) > i

\* in a batch called from a live request the first send failed and the
\* second document was sent
C4_Witness ==
    /\ IsBatch /\ call.is_from_request
    /\ Len(items) >= 2
    /\ SendFailed(items[1])
    /\ items[2].sends # << >> /\ items[2].sends[1].ok

\* C5: in the batch path a document that cannot be resolved ends the call with
\* the exception when the call comes from a live request (no later document
\* is handled), and otherwise is logged and every document of the list is
\* handled.
C5_ResolutionFailure ==
    IsBatch =>
        /\ \A i \in DOMAIN items :
              ~items[i].env.exists
                  => IF call.is_from_request
                     THEN ppc = "raised" /\ i = Len(items) /\ pidx = i
                     ELSE /\ ~items[i].raised
                          /\ items[i].errlog = << "Error running Kafka Hook" >>
        /\ ~call.is_from_request
              => /\ ppc # "raised"
                 /\ ppc = "returned" => Len(items) = Len(doc_list)

\* a live request's batch ended at its second document, one still unhandled
C5_Witness ==
    /\ IsBatch /\ call.is_from_request
    /\ ppc = "raised"
    /\ Len(items) = 2 /\ ~items[2].env.exists
    /\ Len(doc_list) > 2

\* ------------------------------------------------------------ matching claims
\* C1: in one unit of work no webhook name is handed to frappe.enqueue twice
\* for the same document name.
C1_DedupPerDocument ==
    \A i, j \in DOMAIN handed :
        (i # j /\ handed[i].kafka_hook_name = handed[j].kafka_hook_name)
            => handed[i].doc.name # handed[j].doc.name

Registered == IF kafkahook = NoValue THEN {}
              ELSE UNION {Range(kafkahook[1][k]) : k \in DOMAIN kafkahook[1]}

ConditionHolds(w, doc) ==
    w.condition = "" \/ safe_eval(w.condition, doc) = "True"

\* an event whose webhook had already been handed over for that document came
\* again and matched it again
C1_Witness ==
    /\ last # NoValue
    /\ last[1].result = "done"
    /\ \E w \in Registered :
          /\ w.name \in last[1].before
          /\ w.webhook_doctype = last[1].doc.doctype
          /\ w.webhook_docevent = last[1].method
          /\ ConditionHolds(w, last[1].doc)

\* C2: a worker runs a task only when the transaction that handed it over has
\* committed, and the job queue the workers read holds no task of an open or
\* rolled-back transaction.
C2_RunAfterCommit ==
    /\ \A i \in DOMAIN ran : ran[i].txn_state = "committed"
    /\ \A i \in DOMAIN queue : TxnState(queue[i].txn) = "committed"

\* a task of a committed transaction ran, a task of a rolled-back one did not
C2_Witness ==
    /\ ran # << >>
    /\ \E i \in DOMAIN handed : TxnState(handed[i].txn) = "rolledback"

WasApplicable(l) == l.result \in {"no_webhooks", "done", "raised"}

\* no task for an on_change / before_update_after_submit webhook comes from an
\* event fired while the document is being inserted
NotOnInsert ==
    \A i \in DOMAIN handed :
        handed[i].doc.in_insert
            => handed[i].webhook_docevent
                   \notin {"on_change", "before_update_after_submit"}

\* C8 as stated: NotOnInsert, and on an on_change event of a document that is
\* not being inserted every registered on_change webhook of its doctype that
\* was not yet executed for it and whose condition holds is handed over.
C8_OnChangeGating ==
    /\ NotOnInsert
    /\ (last # NoValue /\ WasApplicable(last[1])
        /\ last[1].method = "on_change" /\ ~last[1].doc.in_insert)
          => \A w \in Registered :
                (/\ w.webhook_doctype = last[1].doc.doctype
                 /\ w.webhook_docevent = "on_change"
                 /\ w.name \notin last[1].before
                 /\ ConditionHolds(w, last[1].doc))
                    => w.name \in last[1].fired

\* C8 amended: the same, for the on_change events on which run_webhooks
\* returns (no condition evaluated in the pass raises).
C8_OnChangeGatingReturned ==
    /\ NotOnInsert
    /\ (last # NoValue /\ last[1].result = "done"
        /\ last[1].method = "on_change" /\ ~last[1].doc.in_insert)
          => \A w \in Registered :
                (/\ w.webhook_doctype = last[1].doc.doctype
                 /\ w.webhook_docevent = "on_change"
                 /\ w.name \notin last[1].before
                 /\ ConditionHolds(w, last[1].doc))
                    => w.name \in last[1].fired

\* d1, inserted in this unit of work, has had its second save: its on_change
\* webhook was handed over then, and only then
C8_Witness ==
    /\ ~in_insert["d1"]
    /\ nEvents = 2
    /\ Len(handed) = 1
    /\ handed[1].doc.name = "d1"
    /\ handed[1].webhook_docevent = "on_change"
    /\ ~handed[1].doc.in_insert

\* the three conditions of the claim for webhook w on the last call
Matches(w, l) ==
    /\ w.webhook_doctype = l.doc.doctype
    /\ w.webhook_docevent = l.method
    /\ ConditionHolds(w, l.doc)

\* C9 as stated: on an applicable event a registered webhook not yet executed
\* for the document is handed over if and only if doctype, event and
\* condition match.
C9_FiresIffMatches ==
    (last # NoValue /\ WasApplicable(last[1]))
        => \A w \in Registered :
              w.name \notin last[1].before
                  => (w.name \in last[1].fired <=> Matches(w, last[1]))

\* C9 amended: every webhook handed over matches; and when run_webhooks
\* returns (no condition evaluated in the pass raises) every matching webhook
\* not yet executed for the document is handed over.
C9_FiresIffMatchesReturned ==
    (last # NoValue /\ WasApplicable(last[1]))
        => \A w \in Registered :
              w.name \notin last[1].before
                  => /\ w.name \in last[1].fired => Matches(w, last[1])
                     /\ (last[1].result # "raised" /\ Matches(w, last[1]))
                            => w.name \in last[1].fired

\* on one event one webhook was handed over and another, registered for the
\* same doctype and event, was not because its condition was false
C9_Witness ==
    /\ last # NoValue
    /\ last[1].result = "done"
    /\ last[1].fired # {}
    /\ \E w \in Registered :
          /\ w.webhook_doctype = last[1].doc.doctype
          /\ w.webhook_docevent = last[1].method
          /\ w.condition # ""
          /\ safe_eval(w.condition, last[1].doc) = "False"
          /\ w.name \notin last[1].fired

\* the applicable events as the claim gives them
ClaimedEvents(inserting) ==
    {"after_insert", "on_update", "on_submit", "on_cancel", "on_trash"}
    \cup (IF inserting THEN {} ELSE {"on_change", "before_update_after_submit"})

NoOpCase(l) ==
    \/ l.flags # {}
    \/ /\ "method" \in DOMAIN l
       /\ l.method \notin ClaimedEvents(IF "doc" \in DOMAIN l
                                        THEN l.doc.in_insert ELSE l.in_insert)

\* C10: a run_webhooks call in a unit flagged in_import, in_migrate, in_patch
\* or in_install, or for an event outside the applicable set, hands over no
\* task, leaves the executed tracker as it was, and neither reads the shared
\* cache nor memoizes the registry.
C10_NoOpFrame ==
    [][(nEvents' = nEvents + 1 /\ NoOpCase(last'[1]))
          => UNCHANGED << kafkahook, kafkahook_executed, cache, after_commit,
                          queue, handed, store >>]_vars

\* a flagged call has just run in a unit whose table holds an enabled
\* unconditional on_update webhook for the document's doctype, and nothing is
\* loaded or handed over
C10_Witness ==
    /\ last # NoValue
    /\ last[1].result = "ignored_unit"
    /\ kafkahook = NoValue /\ cache = NoValue /\ handed = << >>
    /\ \E i \in DOMAIN store :
          /\ store[i].enabled /\ store[i].webhook_doctype = "A"
          /\ store[i].webhook_docevent = "on_update" /\ store[i].condition = ""

\* ------------------------------------------------------- partition-key claim
\* C11: a document whose payload was built is sent once; the send carries a
\* key and the structured-object flag exactly when the hook is in Method mode
\* and the built data exposes an id, and then the key is data.id; in Template
\* mode, and in Method mode when the data exposes no id, it is sent with no
\* key and without the flag.
C11_KeyIffMethodId ==
    \A i \in DOMAIN items :
        LET e == items[i].env
            h == call.hook
            s == items[i].sends
        IN  (e.exists /\ ~BuildRaises(h, e))
                => /\ Len(s) = 1
                   /\ IF h.process_data = "Method" /\ e.has_id
                      THEN /\ s[1].key = Some("id-" \o s[1].doc)
                           /\ s[1].is_protobuf_obj
                      ELSE /\ s[1].key = NoValue
                           /\ ~s[1].is_protobuf_obj

\* --------------------------------------------------------- validation claim
\* the trigger events that need a submittable doctype, as the claim gives them
SubmittableOnly == {"on_submit", "on_cancel", "before_update_after_submit"}

NeedsSubmittable(w) ==
    w.webhook_docevent \in SubmittableOnly /\ ~is_submittable[w.webhook_doctype]

\* C12: no persisted definition and no registry entry pairs on_submit,
\* on_cancel or before_update_after_submit with a doctype that is not
\* submittable: the save of such a definition is rejected by validate.
C12_SubmittableGating ==
    /\ \A i \in DOMAIN store : ~NeedsSubmittable(store[i])
    /\ cache # NoValue
          => \A k \in DOMAIN cache[1] :
                \A j \in DOMAIN cache[1][k] : ~NeedsSubmittable(cache[1][k][j])

\* ----------------------------------------------------------- delivery claims
\* C13: in one unit of work the broker send is attempted at most once per
\* webhook name and document: no two tasks a worker ran, and no two calls of
\* send_kafka, share both, and a task leads to at most one call, also after a
\* failed send.
C13_SendAtMostOnce ==
    /\ \A i, j \in DOMAIN ran :
          (i # j /\ ran[i].task.kafka_hook_name = ran[j].task.kafka_hook_name)
              => ran[i].task.doc.name # ran[j].task.doc.name
    /\ \A i, j \in DOMAIN sends :
          (i # j /\ sends[i].hook = sends[j].hook)
              => sends[i].doc # sends[j].doc
    /\ \A i \in DOMAIN ran : Len(ran[i].sends) <= 1

\* the send of a task failed, the task is gone from the queue, and the same
\* webhook was matched again for the same document later in the unit
C13_Witness ==
    /\ \E i \in DOMAIN ran :
          /\ ran[i].sends # << >> /\ ~ran[i].sends[1].ok
          /\ last # NoValue /\ last[1].result = "done"
          /\ last[1].doc.name = ran[i].task.doc.name
          /\ ran[i].task.kafka_hook_name \in last[1].before
          /\ \E w \in Registered :
                w.name = ran[i].task.kafka_hook_name /\ Matches(w, last[1])
    /\ queue = << >> /\ after_commit = << >>

CommittedTask(h, d) ==
    \E i \in DOMAIN handed :
        /\ handed[i].kafka_hook_name = h /\ handed[i].doc.name = d
        /\ TxnState(handed[i].txn) = "committed"

RanTask(h, d) ==
    \E i \in DOMAIN ran :
        ran[i].task.kafka_hook_name = h /\ ran[i].task.doc.name = d

\* every task of a committed transaction has been run
AllCommittedRan ==
    \A h \in HookNames, d \in EventDocs : CommittedTask(h, d) => RanTask(h, d)

\* tasks that were run stay run, so a task of a committed transaction is run
\* at some time exactly when AllCommittedRan holds again and again
EveryCommittedTaskRuns == []<>AllCommittedRan

\* run_kafka_hook raises before the send for this job
RaisesBeforeSend(j) ==
    \/ j.definition = "deleted"
    \/ BuildRaises(HookDoc(j.task.kafka_hook_name), j.env)
    \/ KeyRaises(HookDoc(j.task.kafka_hook_name), j.env)

\* C14 as stated: with workers that keep taking tasks, every task handed over
\* in a transaction that commits is eventually run, and every task a worker
\* ran has left an audit record.
C14_FullAuditTrail ==
    /\ EveryCommittedTaskRuns
    /\ [](\A i \in DOMAIN ran : ran[i].audit # << >>)

\* C14 amended: every such task is eventually run; a task a worker ran has
\* left exactly one audit record, unless run_kafka_hook raised before the send
\* (hook document gone, payload build, key read): then it left none and the
\* exception left run_kafka_hook.
C14_RunAndAudit ==
    /\ EveryCommittedTaskRuns
    /\ [](\A i \in DOMAIN ran :
            IF RaisesBeforeSend(ran[i])
            THEN ran[i].audit = << >> /\ ran[i].raised
            ELSE Len(ran[i].audit) = 1 /\ ~ran[i].raised)

\* both tasks of an event were run: one failed at the send and is on record
\* under the failure mark, the other raised before the send and is not
C14_Witness ==
    /\ queue = << >> /\ after_commit = << >>
    /\ \E i \in DOMAIN ran :
          /\ Len(ran[i].audit) = 1 /\ ran[i].audit[1].topic[1] = "Error: "
    /\ \E j \in DOMAIN ran : ran[j].raised /\ ran[j].audit = << >>

\* ------------------------------------------------------- memoization claim
\* C15: once the unit has memoized the registry it keeps that value; an
\* event that comes later does not touch the shared cache, hands over only
\* webhooks of the memoized registry and, when it returns, exactly those of
\* them that match and were not yet handed over for the document; the
\* registry is memoized by the first applicable event, from the shared cache.
C15_MemoizedOnce ==
    [][/\ (kafkahook = NoValue /\ nEvents' = nEvents + 1
           /\ WasApplicable(last'[1]))
             => (kafkahook' # NoValue /\ kafkahook' = cache')
       /\ kafkahook # NoValue
             => /\ kafkahook' = kafkahook
                /\ nEvents' = nEvents + 1
                     => /\ cache' = cache
                        /\ WasApplicable(last'[1])
                             => last'[1].fired
                                   \subseteq {w.name : w \in Registered}
                        /\ last'[1].result = "done"
                             => \A w \in Registered :
                                   w.name \notin last'[1].before
                                      => (w.name \in last'[1].fired
                                             <=> Matches(w, last'[1]))
      ]_vars

\* the last event handed over a webhook that the unit had memoized and that
\* was no longer an enabled row of the committed table when the event came,
\* and the invalidated cache slot was left empty
C15_Witness ==
    /\ kafkahook # NoValue /\ cache = NoValue
    /\ last # NoValue /\ last[1].result = "done"
    /\ \E n \in last[1].fired : DefinitionState(last[1].table, n) # "enabled"

\* ------------------------------------------------------------ tracker claim
\* the webhook names handed to frappe.enqueue for document d in the unit
HandedFor(d) ==
    {handed[i].kafka_hook_name :
        i \in {k \in DOMAIN handed : handed[k].doc.name = d}}

\* the webhook names the tracker holds for document d
Tracked(d) ==
    IF kafkahook_executed # NoValue /\ d \in DOMAIN kafkahook_executed[1]
    THEN Range(kafkahook_executed[1][d])
    ELSE {}

\* C16: for every document the executed tracker holds exactly the webhook
\* names handed to frappe.enqueue for it in the unit, each once; a webhook
\* that was only skipped is not in it.
C16_TrackerIsHanded ==
    \A d \in DocNames :
        /\ Tracked(d) = HandedFor(d)
        /\ (kafkahook_executed # NoValue /\ d \in DOMAIN kafkahook_executed[1])
              => Len(kafkahook_executed[1][d]) = Cardinality(Tracked(d))

\* the second event of the unit handed over a conditional webhook that the
\* first event had not handed over and so had not recorded
C16_Witness ==
    /\ nEvents = 2 /\ Len(handed) = 1
    /\ last # NoValue /\ last[1].result = "done"
    /\ last[1].before = {}
    /\ \E w \in Registered :
          /\ w.condition = "doc.status == \"Approved\""
          /\ last[1].fired = {w.name}
          /\ Tracked(last[1].doc.name) = {w.name}

\* ------------------------------------------------- evaluator-failure claim
\* the memoized webhooks of the doctype of the last call's document, in order
WebhooksForLast ==
    IF last = NoValue \/ ~WasApplicable(last[1]) \/ kafkahook = NoValue
       \/ last[1].doc.doctype \notin DOMAIN kafkahook[1]
    THEN << >>
    ELSE kafkahook[1][last[1].doc.doctype]

\* webhook k is for the event of the last call and was not yet handed over
Candidate(k) ==
    /\ WebhooksForLast[k].webhook_docevent = last[1].method
    /\ WebhooksForLast[k].name \notin last[1].before

\* webhook k is the first whose condition the evaluator raises on
FirstRaising(k) ==
    LET raising(j) ==
            /\ Candidate(j)
            /\ WebhooksForLast[j].condition # ""
            /\ safe_eval(WebhooksForLast[j].condition, last[1].doc) = "raise"
    IN  raising(k) /\ \A j \in 1..(k - 1) : ~raising(j)

HeldTask(n, d) ==
    \E i \in DOMAIN after_commit :
        after_commit[i].kafka_hook_name = n /\ after_commit[i].doc.name = d

\* C17: run_webhooks raises exactly when the evaluator raises on a webhook it
\* gets to; then that webhook is neither handed over nor recorded, no webhook
\* after it in the registry order is handed over or recorded, and every
\* webhook before it that matched is handed over, held for the commit, and
\* recorded.
C17_EvaluatorRaisePropagates ==
    /\ (last # NoValue /\ last[1].result = "raised")
          => \E k \in DOMAIN WebhooksForLast : FirstRaising(k)
    /\ \A k \in DOMAIN WebhooksForLast :
          FirstRaising(k)
             => LET ws == WebhooksForLast
                    d == last[1].doc.name
                IN  /\ last[1].result = "raised"
                    /\ ws[k].name \notin last[1].fired
                    /\ ws[k].name \notin Tracked(d)
                    /\ \A j \in DOMAIN ws :
                          j > k => /\ ws[j].name \notin last[1].fired
                                   /\ ws[j].name \notin last[1].before
                                         => ws[j].name \notin Tracked(d)
                    /\ \A j \in 1..(k - 1) :
                          (Candidate(j) /\ Matches(ws[j], last[1]))
                             => /\ ws[j].name \in last[1].fired
                                /\ ws[j].name \in Tracked(d)
                                /\ HeldTask(ws[j].name, d)

\* the evaluator raised on the first webhook of the doctype; the second one,
\* unconditional and for the same event, was not handed over
C17_Witness ==
    /\ last # NoValue /\ last[1].result = "raised"
    /\ Len(WebhooksForLast) = 2
    /\ FirstRaising(1)
    /\ Candidate(2) /\ WebhooksForLast[2].condition = ""
    /\ last[1].fired = {}
    /\ handed = << >>

\* ------------------------------------------------------ registry-build claim
\* the positions of a grouping: key and index within the key's list
Slots(v) == UNION {{<< k, j >> : j \in DOMAIN v[k]} : k \in DOMAIN v}

\* C18: the grouping built on a cache miss holds every enabled row of the
\* table it was built from exactly once, under its webhook_doctype and with
\* the queried fields; it holds nothing else (no disabled row); and within a
\* key the rows are in the order of the store query.
C18_RegistryContent ==
    \A i \in DOMAIN fetchLog :
        fetchLog[i].queried
            => LET v == fetchLog[i].val
                   t == fetchLog[i].table
               IN  /\ \A r \in DOMAIN t :
                         t[r].enabled
                            => /\ Cardinality({sl \in Slots(v) :
                                     v[sl[1]][sl[2]].name = t[r].name}) = 1
                               /\ \E j \in DOMAIN v[t[r].webhook_doctype] :
                                     v[t[r].webhook_doctype][j]
                                        = Projection(t[r])
                   /\ \A sl \in Slots(v) :
                         \E r \in DOMAIN t :
                            /\ t[r].enabled
                            /\ Projection(t[r]) = v[sl[1]][sl[2]]
                            /\ t[r].webhook_doctype = sl[1]
                   /\ \A k \in DOMAIN v :
                         \A j1, j2 \in DOMAIN v[k] :
                            j1 < j2
                               => \E r1, r2 \in DOMAIN t :
                                     /\ r1 < r2
                                     /\ t[r1].name = v[k][j1].name
                                     /\ t[r2].name = v[k][j2].name

\* a rebuild from a table of two enabled definitions of one doctype
C18_Witness ==
    /\ fetchLog # << >>
    /\ fetchLog[1].queried
    /\ Len(fetchLog[1].table) = 2
    /\ \E k \in DOMAIN fetchLog[1].val : Len(fetchLog[1].val[k]) = 2

\* --------------------------------------------------------- audit-record claim
\* C19: a document whose handling reached the broker send has exactly one
\* audit record; the record is failure-marked (topic prefixed "Error: ", no
\* response) exactly when the send raised, and a send the broker accepted is
\* on record under the plain topic with the broker's response.
C19_OneAuditPerSend ==
    \A i \in DOMAIN items :
        items[i].sends # << >>
            => LET a == items[i].audit
                   snd == items[i].sends[1]
               IN  /\ Len(items[i].sends) = 1
                   /\ Len(a) = 1
                   /\ (a[1].topic[1] = "Error: ") <=> ~snd.ok
                   /\ (a[1].response = NoValue) <=> ~snd.ok
                   /\ snd.ok => /\ a[1].topic = << call.hook.kafka_topic >>
                                /\ a[1].response = Some("ack")
                   /\ a[1].settings = call.hook.kafka_settings
                   /\ a[1].data.doc = snd.doc

\* a batch in which the broker accepted one document's message and refused
\* another's: two audit records, one of each kind
C19_Witness ==
    /\ IsBatch /\ ppc = "returned"
    /\ Len(audit) = 2
    /\ \E i, j \in DOMAIN items :
          /\ items[i].sends # << >> /\ items[i].sends[1].ok
          /\ items[j].sends # << >> /\ ~items[j].sends[1].ok

\* ------------------------------------------------------ disabled-hook claim
\* C20: no job calls send_kafka for a webhook whose Kafka Hook document is,
\* in the committed table at the time the job runs, disabled or deleted.
C20_NoSendForInactive ==
    \A i \in DOMAIN ran :
        ran[i].sends # << >> => ran[i].definition = "enabled"

====
